---- MODULE Spec2Model ----
(***************************************************************************)
(* Model of MpiHost (lib/libmpi/MpiHost.cpp): the host side of the MPI     *)
(* backend that parses a hosts file, launches the remote programs with     *)
(* Execute packets, and implements send / receive / terminate over UDP     *)
(* datagrams framed with MpiProxy::Header.                                 *)
(*                                                                         *)
(* Memory is modelled as bytes: a packet is a header record followed by a  *)
(* sequence of payload bytes, the caller's buffers are sequences of bytes  *)
(* and a text is a sequence of one-character strings.                      *)
(***************************************************************************)
EXTENDS Integers, Sequences, FiniteSets, TLC

VARIABLES
    pc,          \* position of the program: "init", "launch", "returned", "ready", "recv",
                 \* "term", "failed", "crashed"
    hostsFile,   \* the hosts file on disk: [ok |-> readable, text |-> contents,
                 \* lines |-> the lines it was written from]
    m_nodes,     \* MpiHost::m_nodes, rank r is m_nodes[r + 1]
    call,        \* the API call in progress or last returned, with its arguments
    ret,         \* result of the last returned call, "none" while one is running
    io,          \* transport calls (sendto / recvfrom) made by the current call, in order
    i,           \* loop variable of the running call (rank, or element index in receive)
    buf,         \* receive: the caller's output buffer, as bytes
    oob,         \* receive: element indexes written outside the caller's buffer
    peer,        \* receive: what the remote side holds and has delivered so far
    termPacket,  \* static packet buffer of terminate (header part)
    recvPacket,  \* static packet buffer of receive (header and payload bytes)
    out          \* value stored through the out-pointer of getCommRank / getCommSize

vars == <<pc, hostsFile, m_nodes, call, ret, io, i, buf, oob, peer, termPacket, recvPacket, out>>

----------------------------------------------------------------------------
\* Bounds of the model

\* sizeof(MpiProxy::Header), scaled down
HeaderSize == 5
\* MpiProxy::MaximumPacketSize - sizeof(MpiProxy::Header), scaled down
PayloadCapacity == 8
\* width in bits of the unsigned word (Size) that holds count * datasize, scaled down
WordBits == 6
\* most lines of a hosts file
MaxLines == 3
\* largest element count of an ordinary send or receive call
MaxCount == 2
\* most transport calls of one receive call
MaxIO == 3
\* largest datacount a foreign Receive-op datagram claims
MaxDatacount == 3

----------------------------------------------------------------------------
\* Program constants

MpiProxy_MaximumPacketSize == HeaderSize + PayloadCapacity

SizeofInt == 4
SizeofU8 == 1

MPI_SUCCESS == "MPI_SUCCESS"
MPI_ERR_ARG == "MPI_ERR_ARG"
MPI_ERR_IO == "MPI_ERR_IO"
MPI_ERR_RANK == "MPI_ERR_RANK"
MPI_ERR_NO_MEM == "MPI_ERR_NO_MEM"
MPI_ERR_UNSUPPORTED_DATAREP == "MPI_ERR_UNSUPPORTED_DATAREP"

MPI_INT == "MPI_INT"
MPI_UNSIGNED_CHAR == "MPI_UNSIGNED_CHAR"
\* a datatype outside the two the switch statements know
MPI_DOUBLE == "MPI_DOUBLE"

MpiOpSend == "MpiOpSend"
MpiOpRecv == "MpiOpRecv"
MpiOpExec == "MpiOpExec"
MpiOpTerminate == "MpiOpTerminate"

Operations == {MpiOpSend, MpiOpRecv, MpiOpExec, MpiOpTerminate}
Datatypes == {MPI_INT, MPI_UNSIGNED_CHAR, MPI_DOUBLE}

\* values an indeterminate (never written) byte or header field may hold
Garbage == {0, 1}

----------------------------------------------------------------------------
\* Machine arithmetic

RECURSIVE Pow2(_)
Pow2(n) == IF n = 0 THEN 1 ELSE 2 * Pow2(n - 1)

\* an int converted to the unsigned word
ToSize(n) == n % Pow2(WordBits)

IntMin == 0 - Pow2(WordBits - 1)
IntMax == Pow2(WordBits - 1) - 1

----------------------------------------------------------------------------
\* Sequences

RECURSIVE Flatten(_)
Flatten(ss) == IF ss = <<>> THEN <<>> ELSE Head(ss) \o Flatten(Tail(ss))

Take(s, n) == SubSeq(s, 1, IF n < Len(s) THEN n ELSE Len(s))
Drop(s, n) == SubSeq(s, n + 1, Len(s))

Repeat(x, n) == [k \in 1..n |-> x]

----------------------------------------------------------------------------
\* Text: String::split, atoi, inet_addr, basename

\* String::split(sep): the pieces between separators, empty pieces left out
RECURSIVE SplitFrom(_, _, _, _)
SplitFrom(s, sep, k, cur) ==
    IF k > Len(s)
    THEN IF cur = <<>> THEN <<>> ELSE <<cur>>
    ELSE IF s[k] = sep
         THEN (IF cur = <<>> THEN <<>> ELSE <<cur>>) \o SplitFrom(s, sep, k + 1, <<>>)
         ELSE SplitFrom(s, sep, k + 1, Append(cur, s[k]))

split(s, sep) == SplitFrom(s, sep, 1, <<>>)

DigitChars == <<"0", "1", "2", "3", "4", "5", "6", "7", "8", "9">>
IsDigit(c) == \E d \in 1..10 : DigitChars[d] = c
DigitVal(c) == (CHOOSE d \in 1..10 : DigitChars[d] = c) - 1

\* atoi: the value of the leading decimal digits, 0 when there are none
RECURSIVE AtoiFrom(_, _, _)
AtoiFrom(s, k, acc) ==
    IF k > Len(s) \/ ~IsDigit(s[k]) THEN acc
    ELSE AtoiFrom(s, k + 1, acc * 10 + DigitVal(s[k]))

atoi(s) == AtoiFrom(s, 1, 0)

AllDigits(s) == s # <<>> /\ \A k \in 1..Len(s) : IsDigit(s[k])

\* the n low bytes of v, most significant first (network byte order)
RECURSIVE BigEndian(_, _)
BigEndian(v, n) == IF n = 0 THEN <<>> ELSE Append(BigEndian(v \div 256, n - 1), v % 256)

INADDR_NONE == <<255, 255, 255, 255>>

\* inet_addr: a.b.c.d, a.b.c, a.b or a; the result is the address in network byte order,
\* given here as its four bytes in memory
inet_addr(s) ==
    LET parts == split(s, ".")
        n == Len(parts)
        dots == Cardinality({k \in 1..Len(s) : s[k] = "."})
    IN  IF n = 0 \/ n > 4 \/ dots # n - 1 \/ \E k \in 1..n : ~AllDigits(parts[k])
        THEN INADDR_NONE
        ELSE IF (\E k \in 1..(n - 1) : atoi(parts[k]) > 255)
                \/ (n > 1 /\ atoi(parts[n]) >= Pow2(8 * (5 - n)))
             THEN INADDR_NONE
             ELSE [k \in 1..(n - 1) |-> atoi(parts[k])] \o BigEndian(atoi(parts[n]), 5 - n)

\* basename: what follows the last '/'
basename(path) ==
    LET slashes == {k \in 1..Len(path) : path[k] = "/"}
    IN  IF slashes = {} THEN path
        ELSE LET last == CHOOSE k \in slashes : \A m \in slashes : m <= k
             IN  Drop(path, last)

----------------------------------------------------------------------------
\* Node registry (m_nodes) and packets

Node(ip, port, core) == [ipAddress |-> ip, udpPort |-> port, coreId |-> core]

\* the master node that initialize registers first
master == Node(<<0, 0, 0, 0>>, 0, 0)

\* m_nodes.count()
count(nodes) == Len(nodes)

\* m_nodes.get(position) # ZERO; an int position is converted to the unsigned Size
HasNode(nodes, position) == ToSize(position) < count(nodes)

\* m_nodes.get(position), when it is not ZERO
get(nodes, position) == nodes[ToSize(position) + 1]

\* m_nodes.insert(item): the item takes the first free position
insert(nodes, item) == Append(nodes, item)

Header(op, res, rank, dt, dc, core, cores) ==
    [operation |-> op, result |-> res, rankId |-> rank, datatype |-> dt,
     datacount |-> dc, coreId |-> core, coreCount |-> cores]

\* a static packet buffer before its first use (zero-initialised storage)
ZeroHeader == Header(MpiOpSend, MPI_SUCCESS, 0, MPI_INT, 0, 0, 0)

\* the datatype enumerator an indeterminate word happens to name
GarbageDatatype(g) == IF g = 0 THEN MPI_INT ELSE MPI_UNSIGNED_CHAR

\* the character an indeterminate byte happens to be
GarbageChar(g) == IF g = 0 THEN "0" ELSE "1"

\* one entry of the transport log
SendTo(rank, hdr, payload, size, ok) ==
    [op |-> "sendto", rank |-> rank, hdr |-> hdr, payload |-> payload, len |-> size, ok |-> ok]

RecvFrom(from, hdr, payload, size, ok) ==
    [op |-> "recvfrom", rank |-> from, hdr |-> hdr, payload |-> payload, len |-> size, ok |-> ok]

SysCall(name, ok) ==
    [op |-> name, rank |-> 0, hdr |-> ZeroHeader, payload |-> <<>>, len |-> 0, ok |-> ok]

\* MpiHost::sendPacket: unknown node, else one sendto of `size` bytes, whose result <= 0
\* (a refused datagram, or an empty one) is an I/O failure
sendPacketResultIgnored(nodes, nodeId, size, ok) ==
    IF ~HasNode(nodes, nodeId) THEN MPI_ERR_ARG ELSE MPI_SUCCESS

sendPacketResult(nodes, nodeId, size, ok) ==
    IF ~HasNode(nodes, nodeId) THEN MPI_ERR_ARG
    ELSE IF ~ok \/ size <= 0 THEN MPI_ERR_IO
    ELSE MPI_SUCCESS

\* the transport calls sendPacket makes
sendPacketIO(nodes, nodeId, hdr, payload, size, ok) ==
    IF ~HasNode(nodes, nodeId) THEN <<>>
    ELSE <<SendTo(nodeId, hdr, payload, size, ok /\ size > 0)>>

\* MpiHost::receivePacket: one recvfrom, whose result < 0 is an I/O failure
receivePacketResultIgnored(ok) == MPI_SUCCESS

receivePacketResult(ok) == IF ok THEN MPI_SUCCESS ELSE MPI_ERR_IO

----------------------------------------------------------------------------
\* MpiHost::parseHostsFile

\* the node a line <ip>:<port>:<core> describes
LineNode(nodeLine) ==
    Node(inet_addr(nodeLine[1]), atoi(nodeLine[2]) % 65536, atoi(nodeLine[3]))

\* the loop over the lines, from line k on
RECURSIVE parseLinesBroken(_, _, _)
parseLinesBroken(lines, k, nodes) ==
    IF k > Len(lines) THEN [result |-> MPI_SUCCESS, nodes |-> nodes]
    ELSE LET nodeLine == split(lines[k], ":")
         IN  IF Len(nodeLine) # 3
             THEN [result |-> MPI_ERR_ARG, nodes |-> nodes]
             ELSE parseLinesBroken(lines, k + 1, <<nodes[1], LineNode(nodeLine)>> \o Tail(nodes))

RECURSIVE parseLinesSkipping(_, _, _)
parseLinesSkipping(lines, k, nodes) ==
    IF k > Len(lines) THEN [result |-> MPI_SUCCESS, nodes |-> nodes]
    ELSE LET nodeLine == split(lines[k], ":")
         IN  IF Len(nodeLine) # 3
             THEN [result |-> MPI_ERR_ARG,
                   nodes |-> parseLinesSkipping(lines, k + 1, nodes).nodes]
             ELSE parseLinesSkipping(lines, k + 1, insert(nodes, LineNode(nodeLine)))

RECURSIVE parseLines(_, _, _)
parseLines(lines, k, nodes) ==
    IF k > Len(lines) THEN [result |-> MPI_SUCCESS, nodes |-> nodes]
    ELSE LET nodeLine == split(lines[k], ":")
         IN  IF Len(nodeLine) # 3
             THEN [result |-> MPI_ERR_ARG, nodes |-> nodes]
             ELSE parseLines(lines, k + 1, insert(nodes, LineNode(nodeLine)))

\* stat / fopen / fread (which reports failure for an empty file: it reads one item of
\* st_size bytes), then the split into lines and the loop
parseHostsFileUnchecked(file, nodes) ==
    [result |-> MPI_SUCCESS, nodes |-> parseLines(split(file.text, "\n"), 1, nodes).nodes]

parseHostsFile(file, nodes) ==
    IF ~file.ok \/ Len(file.text) = 0
    THEN [result |-> MPI_ERR_IO, nodes |-> nodes]
    ELSE parseLines(split(file.text, "\n"), 1, nodes)

----------------------------------------------------------------------------
\* MpiHost::startProcesses: the command line

\* the argument vector initialize hands on: argv[0], then what follows the hosts file
ForwardedArgs(argv) == <<argv[1]>> \o Drop(argv, 2)

RECURSIVE AppendArgs(_, _, _)
AppendArgs(cmd, args, k) ==
    IF k > Len(args) THEN cmd
    ELSE AppendArgs(cmd \o args[k] \o (IF k # Len(args) THEN <<" ">> ELSE <<>>), args, k + 1)

cmdline(args) ==
    AppendArgs(basename(args[1]) \o (IF Len(args) > 1 THEN <<" ">> ELSE <<>>), args, 2)

----------------------------------------------------------------------------
\* Inputs

\* hosts lines: two well-formed ones, one with two fields, one with four
LineA == <<"1", "0", ".", "0", ".", "0", ".", "2", ":", "9", "0", "0", "0", ":", "0">>
LineB == <<"1", "0", ".", "0", ".", "0", ".", "3", ":", "9", "0", "0", "0", ":", "1">>
LineShort == <<"1", "0", ".", "0", ".", "0", ".", "4", ":", "9", "0", "0", "0">>
LineLong == <<"1", "0", ".", "0", ".", "0", ".", "5", ":", "9", "0", "0", "0", ":", "1", ":", "7">>

GoodLines == {LineA, LineB}
AnyLines == {LineA, LineB, LineShort, LineLong}

SeqsUpTo(S, n) == UNION {[1..m -> S] : m \in 0..n}

\* the text of a file with these lines, the last one newline-terminated or not
FileText(lines, terminated) ==
    Flatten([k \in 1..Len(lines) |->
                lines[k] \o (IF k < Len(lines) \/ terminated THEN <<"\n">> ELSE <<>>)])

HostsFile(ok, lines, terminated) ==
    [ok |-> ok, text |-> FileText(lines, terminated), lines |-> lines]

\* every hosts file of at most MaxLines lines, and one that cannot be read
AnyFiles ==
    {HostsFile(TRUE, ls, t) : ls \in SeqsUpTo(AnyLines, MaxLines), t \in BOOLEAN}
    \cup {HostsFile(FALSE, <<LineA>>, TRUE)}

\* the well-formed files A, A B, A B A, ...
GoodFiles ==
    {HostsFile(TRUE, [k \in 1..n |-> IF k % 2 = 1 THEN LineA ELSE LineB], TRUE) :
        n \in 1..MaxLines}

ProgName == <<"p", "r", "o", "g">>
ProgPath == <<"b", "i", "n", "/">> \o ProgName
HostsPath == <<"h">>
ArgA == <<"-", "a">>
ArgB == <<"-", "b">>
ArgC == <<"-", "c">>

\* argument vectors: too short, without and with forwarded arguments, and one whose command
\* line is longer than a packet's payload
ShortArgv == <<ProgName>>
PlainArgv == <<ProgPath, HostsPath>>
FlagArgv == <<ProgName, HostsPath, ArgA>>
LongArgv == <<ProgPath, HostsPath, ArgA, ArgB, ArgC>>

AnyArgvs == {ShortArgv, PlainArgv, FlagArgv, LongArgv}

Call(name, argv, n, dt, rank, seed) ==
    [name |-> name, argv |-> argv, count |-> n, datatype |-> dt, rank |-> rank, seed |-> seed]

NoPeer == [data |-> <<>>, pos |-> 0, foreign |-> FALSE]

NoPacket == [hdr |-> ZeroHeader, payload |-> Repeat(0, PayloadCapacity)]

InitWith(files, argvs) ==
    /\ pc = "init"
    /\ hostsFile \in files
    /\ m_nodes = <<>>
    /\ call \in {Call("initialize", av, 0, MPI_INT, 0, 0) : av \in argvs}
    /\ ret = "none"
    /\ io = <<>>
    /\ i = 0
    /\ buf = <<>>
    /\ oob = {}
    /\ peer = NoPeer
    /\ termPacket = ZeroHeader
    /\ recvPacket = NoPacket
    /\ out = 0

Init == InitWith(GoodFiles, {FlagArgv, LongArgv})

InitStartup == InitWith(AnyFiles, AnyArgvs)

----------------------------------------------------------------------------
\* MpiHost::initialize and MpiHost::startProcesses

\* initialize returns `result`: a failed initialisation ends the program
ReturnInit(result) ==
    /\ pc' = (IF result # MPI_SUCCESS THEN "failed" ELSE "returned")
    /\ ret' = result

\* any other call returns `result`
Return(result) ==
    /\ pc' = "returned"
    /\ ret' = result

\* initialize up to the launch: the argument check, the master node, the hosts file, the
\* socket and its bind
Initialize ==
    /\ pc = "init"
    /\ UNCHANGED <<hostsFile, call, buf, oob, peer, termPacket, recvPacket, out>>
    /\ IF Len(call.argv) < 2
       THEN /\ ReturnInit(MPI_ERR_ARG)
            /\ UNCHANGED <<m_nodes, io, i>>
       ELSE LET parsed == parseHostsFile(hostsFile, insert(m_nodes, master))
            IN  /\ m_nodes' = parsed.nodes
                /\ IF parsed.result # MPI_SUCCESS
                   THEN /\ ReturnInit(parsed.result)
                        /\ UNCHANGED <<io, i>>
                   ELSE \E sockOk, bindOk \in BOOLEAN :
                        IF ~sockOk
                        THEN /\ io' = <<SysCall("socket", FALSE)>>
                             /\ ReturnInit(MPI_ERR_IO)
                             /\ UNCHANGED i
                        ELSE IF ~bindOk
                        THEN /\ io' = <<SysCall("socket", TRUE), SysCall("bind", FALSE)>>
                             /\ ReturnInit(MPI_ERR_IO)
                             /\ UNCHANGED i
                        ELSE /\ io' = <<SysCall("socket", TRUE), SysCall("bind", TRUE)>>
                             /\ i' = 1
                             /\ IF 1 < count(parsed.nodes)
                                THEN pc' = "launch" /\ ret' = "none"
                                ELSE ReturnInit(MPI_SUCCESS)

\* the bytes sendto reads after the header of the Execute packet: the command line as far as
\* it fits the packet buffer, then whatever lies behind the buffer
ExecPayload(cmd, g) ==
    IF Len(cmd) <= PayloadCapacity THEN cmd
    ELSE Take(cmd, PayloadCapacity) \o Repeat(GarbageChar(g), Len(cmd) - PayloadCapacity)

\* the size startProcesses passes to sendPacket
ExecSize(cmd) == HeaderSize + Len(cmd)

\* the header of the Execute packet for rank r; datatype and datacount are never written
ExecHeader(nodes, r, g) ==
    Header(MpiOpExec, MPI_SUCCESS, r, GarbageDatatype(g), g, nodes[r + 1].coreId, count(nodes))

\* one iteration of the loop of startProcesses, for rank i
StartProcessesStep ==
    /\ pc = "launch"
    /\ UNCHANGED <<hostsFile, m_nodes, call, buf, oob, peer, termPacket, recvPacket, out>>
    /\ \E g \in Garbage, ok \in BOOLEAN :
        LET cmd == cmdline(ForwardedArgs(call.argv))
            sendResult == sendPacketResult(m_nodes, i, ExecSize(cmd), ok)
        IN  /\ io' = io \o sendPacketIO(m_nodes, i, ExecHeader(m_nodes, i, g),
                                        ExecPayload(cmd, g), ExecSize(cmd), ok)
            /\ IF sendResult # MPI_SUCCESS
               THEN ReturnInit(sendResult) /\ UNCHANGED i
               ELSE /\ i' = i + 1
                    /\ IF i + 1 < count(m_nodes)
                       THEN UNCHANGED <<pc, ret>>
                       ELSE ReturnInit(MPI_SUCCESS)

----------------------------------------------------------------------------
\* MpiHost::getCommRank and MpiHost::getCommSize

GetCommRank ==
    /\ pc = "ready"
    /\ call' = Call("getCommRank", <<>>, 0, MPI_INT, 0, 0)
    /\ out' = 0
    /\ io' = <<>>
    /\ Return(MPI_SUCCESS)
    /\ UNCHANGED <<hostsFile, m_nodes, i, buf, oob, peer, termPacket, recvPacket>>

GetCommSize ==
    /\ pc = "ready"
    /\ call' = Call("getCommSize", <<>>, 0, MPI_INT, 0, 0)
    /\ out' = count(m_nodes)
    /\ io' = <<>>
    /\ Return(MPI_SUCCESS)
    /\ UNCHANGED <<hostsFile, m_nodes, i, buf, oob, peer, termPacket, recvPacket>>

----------------------------------------------------------------------------
\* MpiHost::send

\* ranks a caller may name: the registered ones, one below and one above
Ranks == (0 - 1)..(MaxLines + 1)

\* the count for which count * sizeof(int) is exactly 2^WordBits
WrapCount == Pow2(WordBits) \div SizeofInt

\* counts of a send call: negative, ordinary, up to and over a packet's capacity, and such
\* that the product with sizeof(int) no longer fits the unsigned word
SendCounts ==
    {0 - 1} \cup 0..(MaxCount + 1) \cup {PayloadCapacity, PayloadCapacity + 1}
            \cup {WrapCount, WrapCount + 1}

\* byte k (from 0) of the caller's data
SrcByte(seed, k) == 16 * seed + k + 1

SrcBytes(seed, n) == [k \in 1..n |-> SrcByte(seed, k - 1)]

Supported(dt) == dt \in {MPI_INT, MPI_UNSIGNED_CHAR}

\* the switch on the datatype
datasize(dt) == IF dt = MPI_INT THEN SizeofInt ELSE SizeofU8

\* count * datasize, computed in the unsigned word
PayloadBytes(n, dt) == (ToSize(n) * datasize(dt)) % Pow2(WordBits)

\* (count * datasize) + sizeof(MpiProxy::Header) > MpiProxy::MaximumPacketSize, the sum
\* computed in size_t, which is sumBits wide
TooLarge(n, dt, sumBits) ==
    (PayloadBytes(n, dt) + HeaderSize) % Pow2(sumBits) > MpiProxy_MaximumPacketSize

\* the header send writes; coreId and coreCount are never written
SendHeaderNoCount(n, dt, dest, g) == Header(MpiOpSend, MPI_SUCCESS, dest, dt, 0, g, g)

SendHeader(n, dt, dest, g) == Header(MpiOpSend, MPI_SUCCESS, dest, dt, n, g, g)

\* the size send passes to sendPacket, a Size
SendSize(n, dt) == (HeaderSize + PayloadBytes(n, dt)) % Pow2(WordBits)

Send ==
    /\ pc = "ready"
    /\ UNCHANGED <<hostsFile, m_nodes, i, buf, oob, peer, termPacket, recvPacket, out>>
    /\ \E n \in SendCounts, dt \in Datatypes, dest \in Ranks, seed \in {0, 1} :
       \E g \in Garbage, ok \in BOOLEAN, sumBits \in {WordBits, 2 * WordBits} :
        /\ call' = Call("send", <<>>, n, dt, dest, seed)
        /\ IF ~Supported(dt)
           THEN io' = <<>> /\ Return(MPI_ERR_ARG)
           ELSE IF TooLarge(n, dt, sumBits)
           THEN io' = <<>> /\ Return(MPI_ERR_ARG)
           ELSE IF ~HasNode(m_nodes, dest)
           THEN io' = <<>> /\ Return(MPI_ERR_ARG)
           ELSE IF PayloadBytes(n, dt) > PayloadCapacity
           THEN \* MemoryBlock::copy writes past the end of the packet buffer on the stack
                \/ /\ io' = <<>>
                   /\ pc' = "crashed"
                   /\ ret' = "none"
                \/ /\ io' = sendPacketIO(m_nodes, dest, SendHeader(n, dt, dest, g), <<>>,
                                         SendSize(n, dt), ok)
                   /\ Return(sendPacketResult(m_nodes, dest, SendSize(n, dt), ok))
           ELSE /\ io' = sendPacketIO(m_nodes, dest, SendHeader(n, dt, dest, g),
                                      SrcBytes(seed, PayloadBytes(n, dt)), SendSize(n, dt), ok)
                /\ Return(sendPacketResult(m_nodes, dest, SendSize(n, dt), ok))

----------------------------------------------------------------------------
\* MpiHost::terminate

\* the remote rank after r, in the ring of remote ranks
NextRemote(nodes, r) == (r % (count(nodes) - 1)) + 1

Datagram(from, hdr, payload) == [from |-> from, hdr |-> hdr, payload |-> payload]

\* replies a waiting terminate may consume: the asked rank's acknowledgement, its report of a
\* failure, a datagram of another operation from it, and the acknowledgement of another rank
TerminateReplies(nodes, r) ==
    {Datagram(r, Header(MpiOpTerminate, MPI_SUCCESS, r, MPI_INT, 0, 0, 0), <<>>),
     Datagram(r, Header(MpiOpTerminate, MPI_ERR_IO, r, MPI_INT, 0, 0, 0), <<>>),
     Datagram(r, Header(MpiOpSend, MPI_SUCCESS, r, MPI_INT, 0, 0, 0), <<>>),
     Datagram(NextRemote(nodes, r), Header(MpiOpTerminate, MPI_SUCCESS, NextRemote(nodes, r),
                                           MPI_INT, 0, 0, 0), <<>>)}

TerminateCall ==
    /\ pc = "ready"
    /\ call' = Call("terminate", <<>>, 0, MPI_INT, 0, 0)
    /\ io' = <<>>
    /\ i' = 1
    /\ IF 1 < count(m_nodes)
       THEN pc' = "term" /\ ret' = "none"
       ELSE Return(MPI_SUCCESS)
    /\ UNCHANGED <<hostsFile, m_nodes, buf, oob, peer, termPacket, recvPacket, out>>

\* the step that ends the loop body: the next rank, or the return after the last one
TerminateNextFromAskedRank ==
    IF termPacket'.rankId # i
    THEN UNCHANGED <<i, pc, ret>>
    ELSE /\ i' = i + 1
         /\ IF i + 1 < count(m_nodes)
            THEN UNCHANGED <<pc, ret>>
            ELSE Return(MPI_SUCCESS)

TerminateNextStopOnBadReply ==
    /\ i' = i + 1
    /\ IF i + 1 < count(m_nodes) /\ termPacket'.operation = MpiOpTerminate
                                 /\ termPacket'.result = MPI_SUCCESS
       THEN UNCHANGED <<pc, ret>>
       ELSE Return(IF termPacket'.operation = MpiOpTerminate /\ termPacket'.result = MPI_SUCCESS
                   THEN MPI_SUCCESS ELSE MPI_ERR_IO)

TerminateNext ==
    /\ i' = i + 1
    /\ IF i + 1 < count(m_nodes)
       THEN UNCHANGED <<pc, ret>>
       ELSE Return(MPI_SUCCESS)

\* one iteration of the loop of terminate, for rank i
TerminateStep ==
    /\ pc = "term"
    /\ UNCHANGED <<hostsFile, m_nodes, call, buf, oob, peer, recvPacket, out>>
    /\ LET hdr == [termPacket EXCEPT !.operation = MpiOpTerminate]
       IN  \E sendOk \in BOOLEAN :
           LET sendResult == sendPacketResult(m_nodes, i, HeaderSize, sendOk)
               sent == sendPacketIO(m_nodes, i, hdr, <<>>, HeaderSize, sendOk)
           IN  IF sendResult # MPI_SUCCESS
               THEN /\ io' = io \o sent
                    /\ termPacket' = hdr
                    /\ Return(sendResult)
                    /\ UNCHANGED i
               ELSE \/ /\ io' = io \o sent \o <<RecvFrom(0, hdr, <<>>, 0, FALSE)>>
                       /\ termPacket' = hdr
                       /\ Return(receivePacketResult(FALSE))
                       /\ UNCHANGED i
                    \/ \E d \in TerminateReplies(m_nodes, i) :
                       /\ io' = io \o sent \o <<RecvFrom(d.from, d.hdr, d.payload, HeaderSize, TRUE)>>
                       /\ termPacket' = d.hdr
                       /\ TerminateNext

----------------------------------------------------------------------------
\* MpiHost::receive

\* counts of a receive call
RecvCounts == (0 - 1)..MaxCount

\* byte k (from 0) of the data a foreign Receive-op datagram carries
ForeignByte(k) == 128 + k

\* the caller's buffer before the call: count elements, no room at all for a count <= 0
EmptyBuf(n, dt) == IF n > 0 /\ Supported(dt) THEN Repeat(0, n * datasize(dt)) ELSE <<>>

\* the datagrams a waiting receive may consume
\*   chunks: the next d elements the source rank holds, as a Receive-op packet
Chunks(n, dt, source) ==
    {[from |-> source, conforming |-> TRUE,
      hdr |-> Header(MpiOpRecv, MPI_SUCCESS, source, dt, d, 0, 0),
      payload |-> SubSeq(peer.data, peer.pos * datasize(dt) + 1, (peer.pos + d) * datasize(dt))] :
        d \in {d \in 0..(n - peer.pos) : Supported(dt) /\ d * datasize(dt) <= PayloadCapacity}}

\*   others: a datagram of another operation, reporting success or failure, and a Send-op
\*   packet that carries one element
Others(nodes, source) ==
    {[from |-> source, conforming |-> TRUE,
      hdr |-> Header(op, res, source, MPI_INT, 0, 0, 0), payload |-> <<>>] :
        op \in {MpiOpSend, MpiOpTerminate}, res \in {MPI_SUCCESS, MPI_ERR_IO}}
    \cup {[from |-> source, conforming |-> TRUE,
           hdr |-> Header(MpiOpSend, MPI_SUCCESS, source, MPI_UNSIGNED_CHAR, 1, 0, 0),
           payload |-> <<ForeignByte(0)>>]}

\*   foreign: a Receive-op packet that is not the next chunk: from the source rank or from
\*   its successor in the ring of remote ranks, carrying d elements of other data
Foreign(nodes, dt, source) ==
    {[from |-> f, conforming |-> FALSE,
      hdr |-> Header(MpiOpRecv, MPI_SUCCESS, f, dt, d, 0, 0),
      payload |-> [k \in 1..(d * datasize(dt)) |-> ForeignByte(k - 1)]] :
        f \in {source, NextRemote(nodes, source)},
        d \in {d \in 1..MaxDatacount : d * datasize(dt) <= PayloadCapacity}}

\* recvfrom into the static packet buffer: the datagram replaces the start of the buffer
Received(packet, d) ==
    [hdr |-> d.hdr, payload |-> d.payload \o Drop(packet.payload, Len(d.payload))]

\* byte `off` (from 0) behind the header of the packet buffer; g is what lies behind the buffer
PayloadByte(packet, off, g) ==
    IF off < PayloadCapacity THEN packet.payload[off + 1] ELSE g

\* where element j of a packet lies: data = ((const u8 *)(header + 1)) + j
ElementOffset(j, dt) == j

\* the bytes the inner loop stores for element j of the packet
ElementBytes(packet, j, dt, g) ==
    [k \in 1..datasize(dt) |-> PayloadByte(packet, ElementOffset(j, dt) + k - 1, g)]

\* the caller's buffer after the inner loop has stored elements 0..(dc - 1) of the packet at
\* element indexes first, first + 1, ...; stores outside the buffer do not land in it
RECURSIVE CopyElements(_, _, _, _, _, _, _)
CopyElements(b, packet, first, j, dc, dt, g) ==
    IF j >= dc THEN b
    ELSE LET at == (first + j) * datasize(dt)
             bytes == ElementBytes(packet, j, dt, g)
             stored == IF at + datasize(dt) <= Len(b)
                       THEN [k \in 1..Len(b) |->
                               IF k > at /\ k <= at + datasize(dt) THEN bytes[k - at] ELSE b[k]]
                       ELSE b
         IN  CopyElements(stored, packet, first, j + 1, dc, dt, g)

\* the element indexes the inner loop stores to that lie outside the caller's buffer
OutOfBounds(first, dc, n) == {e \in first..(first + dc - 1) : e >= n}

\* the header of the request: result, coreId and coreCount keep what the buffer held
RequestHeader(packet, n, dt, source) ==
    [packet.hdr EXCEPT !.operation = MpiOpRecv, !.rankId = source,
                       !.datatype = dt, !.datacount = n]

\* the test that sends the outer loop back for another datagram
DiscardedNever(hdr) == FALSE

Discarded(hdr) == hdr.operation # MpiOpRecv

ReceiveCall ==
    /\ pc = "ready"
    /\ UNCHANGED <<hostsFile, m_nodes, termPacket, out>>
    /\ \E n \in RecvCounts, dt \in Datatypes, source \in Ranks, ok \in BOOLEAN :
        /\ call' = Call("receive", <<>>, n, dt, source, 0)
        /\ buf' = EmptyBuf(n, dt)
        /\ oob' = {}
        /\ i' = 0
        /\ peer' = [data |-> IF n > 0 /\ Supported(dt) THEN SrcBytes(0, n * datasize(dt)) ELSE <<>>,
                    pos |-> 0, foreign |-> FALSE]
        /\ IF ~HasNode(m_nodes, source)
           THEN /\ io' = <<>>
                /\ Return(MPI_ERR_RANK)
                /\ UNCHANGED recvPacket
           ELSE LET hdr == RequestHeader(recvPacket, n, dt, source)
                    sendResult == sendPacketResult(m_nodes, source, HeaderSize, ok)
                IN  /\ recvPacket' = [recvPacket EXCEPT !.hdr = hdr]
                    /\ io' = sendPacketIO(m_nodes, source, hdr, <<>>, HeaderSize, ok)
                    /\ IF sendResult # MPI_SUCCESS
                       THEN Return(sendResult)
                       ELSE IF 0 < n
                       THEN pc' = "recv" /\ ret' = "none"
                       ELSE Return(MPI_SUCCESS)

\* one iteration of the outer loop of receive
ReceiveStep ==
    /\ pc = "recv"
    /\ Len(io) < MaxIO
    /\ UNCHANGED <<hostsFile, m_nodes, call, termPacket, out>>
    /\ \/ /\ io' = Append(io, RecvFrom(0, recvPacket.hdr, <<>>, 0, FALSE))
          /\ Return(receivePacketResult(FALSE))
          /\ UNCHANGED <<i, buf, oob, peer, recvPacket>>
       \/ \E d \in Chunks(call.count, call.datatype, call.rank)
                   \cup Others(m_nodes, call.rank)
                   \cup Foreign(m_nodes, call.datatype, call.rank), g \in Garbage :
          LET packet == Received(recvPacket, d)
              dc == d.hdr.datacount
          IN  /\ io' = Append(io, RecvFrom(d.from, d.hdr, d.payload,
                                           HeaderSize + Len(d.payload), TRUE))
              /\ recvPacket' = packet
              /\ IF Discarded(packet.hdr)
                 THEN UNCHANGED <<pc, ret, i, buf, oob, peer>>
                 ELSE /\ peer' = [peer EXCEPT !.pos = IF d.conforming THEN @ + dc ELSE @,
                                              !.foreign = @ \/ ~d.conforming]
                      /\ IF dc > 0 /\ ~Supported(call.datatype)
                         THEN /\ Return(MPI_ERR_UNSUPPORTED_DATAREP)
                              /\ UNCHANGED <<i, buf, oob>>
                         ELSE /\ buf' = CopyElements(buf, packet, i, 0, dc, call.datatype, g)
                              /\ oob' = oob \cup OutOfBounds(i, dc, call.count)
                              /\ i' = i + dc
                              /\ IF i + dc < call.count
                                 THEN UNCHANGED <<pc, ret>>
                                 ELSE Return(MPI_SUCCESS)

----------------------------------------------------------------------------
\* The caller

NoCall == Call("none", <<>>, 0, MPI_INT, 0, 0)

\* The caller goes on after a call has returned: what the call handed back is dropped.  The
\* static packet buffers stay; of the buffer of receive only the header fields the next
\* request does not overwrite before sending (result, coreId, coreCount) are kept, the rest
\* is dead: every datagram carries as many elements as its header says, so no byte is read
\* that the call did not receive itself.
Resume ==
    /\ pc = "returned"
    /\ pc' = "ready"
    /\ call' = NoCall
    /\ ret' = "none"
    /\ io' = <<>>
    /\ i' = 0
    /\ buf' = <<>>
    /\ oob' = {}
    /\ peer' = NoPeer
    /\ out' = 0
    /\ recvPacket' = [hdr |-> [ZeroHeader EXCEPT !.result = recvPacket.hdr.result,
                                                 !.coreId = recvPacket.hdr.coreId,
                                                 !.coreCount = recvPacket.hdr.coreCount],
                      payload |-> Repeat(0, PayloadCapacity)]
    /\ UNCHANGED <<hostsFile, m_nodes, termPacket>>

NextStartup == Initialize \/ StartProcessesStep \/ GetCommRank \/ GetCommSize \/ Resume

SpecStartup == InitStartup /\ [][NextStartup]_vars

NextSend == Initialize \/ StartProcessesStep \/ Send \/ Resume

SpecSend == Init /\ [][NextSend]_vars

NextReceive == Initialize \/ StartProcessesStep \/ ReceiveCall \/ ReceiveStep \/ Resume

SpecReceive == Init /\ [][NextReceive]_vars

NextTerminate == Initialize \/ StartProcessesStep \/ TerminateCall \/ TerminateStep \/ Resume

SpecTerminate == Init /\ [][NextTerminate]_vars

\* the calls that wait for replies
NextReplies ==
    \/ Initialize
    \/ StartProcessesStep
    \/ TerminateCall
    \/ TerminateStep
    \/ ReceiveCall
    \/ ReceiveStep
    \/ Resume

\* started with the hosts file of MaxLines lines: several remote ranks that may all send
SpecReplies ==
    /\ InitWith({f \in GoodFiles : Len(f.lines) = MaxLines}, {FlagArgv})
    /\ [][NextReplies]_vars

----------------------------------------------------------------------------
\* What the claims speak of

Returned(name) == pc = "returned" /\ call.name = name

\* the rank is one of [0, count())
ValidRank(r) == 0 <= r /\ r < count(m_nodes)

\* the sendto calls of the current call, in order
Sends == SelectSeq(io, LAMBDA e : e.op = "sendto")

\* no transport call of the current call has failed
NoTransportFailure == \A k \in 1..Len(io) : io[k].ok

\* the nodes the hosts lines describe
ExpectedNode(line) ==
    IF line = LineA THEN Node(<<10, 0, 0, 2>>, 9000, 0)
    ELSE IF line = LineB THEN Node(<<10, 0, 0, 3>>, 9000, 1)
    ELSE IF line = LineShort THEN Node(<<10, 0, 0, 4>>, 9000, 0)
    ELSE Node(<<10, 0, 0, 5>>, 9000, 1)

\* lines that do not have exactly three fields
BadLines == {LineShort, LineLong}

\* the command line each argument vector stands for
ExpectedCmdline(argv) ==
    IF argv = PlainArgv THEN <<"p", "r", "o", "g">>
    ELSE IF argv = FlagArgv THEN <<"p", "r", "o", "g", " ", "-", "a">>
    ELSE <<"p", "r", "o", "g", " ", "-", "a", " ", "-", "b", " ", "-", "c">>

\* C1: a receive of N >= 0 elements of a supported datatype from a valid rank, whose request
\* was sent and whose peer has delivered the N elements it holds as consecutive Receive-op
\* packets (no other Receive-op packet, no transport failure), has returned success with
\* the caller's buffer holding the peer's N elements in their order.
C1_RoundTrip ==
    (/\ call.name = "receive"
     /\ pc \in {"recv", "returned"}
     /\ ValidRank(call.rank)
     /\ Supported(call.datatype)
     /\ call.count >= 0
     /\ Len(io) > 0
     /\ NoTransportFailure
     /\ ~peer.foreign
     /\ peer.pos = call.count)
    => (pc = "returned" /\ ret = MPI_SUCCESS /\ buf = peer.data)

\* C2: a send or receive that names a rank outside [0, count()) has returned MPI_ERR_RANK
\* and has made no transport call.
C2_InvalidRank ==
    ((Returned("send") \/ Returned("receive")) /\ ~ValidRank(call.rank))
    => (ret = MPI_ERR_RANK /\ io = <<>>)

\* C3: a send of a supported datatype whose count * element width + header size is more
\* than MaximumPacketSize ends with MPI_ERR_ARG and without a transport call, whatever the
\* destination rank.
C3_OversizedSend ==
    (/\ call.name = "send"
     /\ pc \in {"returned", "crashed"}
     /\ Supported(call.datatype)
     /\ call.count * datasize(call.datatype) + HeaderSize > MpiProxy_MaximumPacketSize)
    => (pc = "returned" /\ ret = MPI_ERR_ARG /\ io = <<>>)

\* C4: during terminate the transport calls are, in this order, one Terminate packet of
\* header size to rank 1, one recvfrom, one Terminate packet to rank 2, one recvfrom, ...;
\* and when none of them failed the call returns success after the recvfrom for rank N-1,
\* whatever operation and result the consumed datagrams carry.
C4_TerminateSweep ==
    call.name = "terminate" =>
        /\ \A k \in 1..Len(io) :
            IF k % 2 = 1
            THEN /\ io[k].op = "sendto"
                 /\ io[k].rank = (k + 1) \div 2
                 /\ io[k].hdr.operation = MpiOpTerminate
                 /\ io[k].len = HeaderSize
            ELSE io[k].op = "recvfrom"
        /\ (pc = "returned" /\ NoTransportFailure) =>
                (ret = MPI_SUCCESS /\ Len(io) = 2 * (count(m_nodes) - 1))
        /\ (pc = "term" /\ NoTransportFailure) =>
                (Len(io) = 2 * (i - 1) /\ i < count(m_nodes))

\* a registry of four nodes, the datagram consumed for rank 2 is a Send-op packet, ranks 1
\* and 3 were sent their Terminate packet and the call returned success
C4_Witness ==
    /\ Returned("terminate")
    /\ count(m_nodes) = 4
    /\ Len(io) = 6
    /\ io[4].hdr.operation = MpiOpSend
    /\ io[1].rank = 1 /\ io[5].rank = 3 /\ io[5].hdr.operation = MpiOpTerminate
    /\ ret = MPI_SUCCESS

\* C5: after a successful initialisation from a hosts file of K well-formed lines the
\* registry holds K + 1 nodes, rank 0 the master {0, 0, 0} and rank k the node of line k,
\* and getCommSize stores K + 1.
C5_Registry ==
    (pc \in {"returned", "ready"} /\ \A k \in 1..Len(hostsFile.lines) : hostsFile.lines[k] \in GoodLines)
    => /\ count(m_nodes) = Len(hostsFile.lines) + 1
       /\ m_nodes[1] = Node(<<0, 0, 0, 0>>, 0, 0)
       /\ \A k \in 1..Len(hostsFile.lines) : m_nodes[k + 1] = ExpectedNode(hostsFile.lines[k])
       /\ Returned("getCommSize") => (out = Len(hostsFile.lines) + 1 /\ ret = MPI_SUCCESS)

\* the hosts file 10.0.0.2:9000:0, 10.0.0.3:9000:1 and getCommSize storing 3
C5_Witness ==
    /\ Returned("getCommSize")
    /\ hostsFile.lines = <<LineA, LineB>>
    /\ out = 3

\* C6: once initialize has parsed a readable hosts file with a line that has not exactly
\* three fields, it has failed with MPI_ERR_ARG and the registry holds the master and the
\* nodes of the lines before the first such line, nothing else.
C6_MalformedLine ==
    (/\ pc # "init"
     /\ Len(call.argv) >= 2
     /\ hostsFile.ok
     /\ \E k \in 1..Len(hostsFile.lines) : hostsFile.lines[k] \in BadLines)
    => LET bad == CHOOSE k \in 1..Len(hostsFile.lines) :
                     /\ hostsFile.lines[k] \in BadLines
                     /\ \A m \in 1..(k - 1) : hostsFile.lines[m] \notin BadLines
       IN  /\ pc = "failed"
           /\ ret = MPI_ERR_ARG
           /\ io = <<>>
           /\ m_nodes = <<Node(<<0, 0, 0, 0>>, 0, 0)>>
                        \o [k \in 1..(bad - 1) |-> ExpectedNode(hostsFile.lines[k])]

\* two well-formed lines, then a malformed one, then a well-formed one
C6_Witness ==
    /\ pc = "failed"
    /\ hostsFile.ok
    /\ hostsFile.lines = <<LineA, LineB, LineShort>>
    /\ count(m_nodes) = 3
    /\ ret = MPI_ERR_ARG

\* C7: when initialize has returned success, startProcesses has sent exactly one packet to
\* each rank 1..N-1, in this order, the one for rank r with operation Execute, result 0,
\* rankId r, the coreId of node r, coreCount N and the command line as its payload.
C7_ExecutePackets ==
    (Returned("initialize") /\ ret = MPI_SUCCESS)
    => /\ Len(Sends) = count(m_nodes) - 1
       /\ \A r \in 1..Len(Sends) :
            /\ Sends[r].rank = r
            /\ Sends[r].hdr.operation = MpiOpExec
            /\ Sends[r].hdr.result = MPI_SUCCESS
            /\ Sends[r].hdr.rankId = r
            /\ Sends[r].hdr.coreId = m_nodes[r + 1].coreId
            /\ Sends[r].hdr.coreCount = count(m_nodes)
            /\ Sends[r].payload = ExpectedCmdline(call.argv)

\* C8: every datagram handed to sendto is the header followed by its payload and is at most
\* MaximumPacketSize long.
C8_PacketSize ==
    \A k \in 1..Len(io) :
        io[k].op = "sendto" =>
            /\ io[k].len = HeaderSize + Len(io[k].payload)
            /\ io[k].len <= MpiProxy_MaximumPacketSize

\* C9: a send of count >= 0 elements of a supported datatype to a valid rank, with header
\* size + count * element width <= MaximumPacketSize, makes exactly one transport call: the
\* sendto of a datagram of that length to that rank, with operation Send, result 0, rankId
\* the rank, the datatype, datacount the count, and the caller's bytes as payload; it
\* returns success when sendto accepted the datagram and MPI_ERR_IO when it did not.
C9_SendFrame ==
    (/\ call.name = "send"
     /\ pc \in {"returned", "crashed"}
     /\ ValidRank(call.rank)
     /\ Supported(call.datatype)
     /\ call.count >= 0
     /\ HeaderSize + call.count * datasize(call.datatype) <= MpiProxy_MaximumPacketSize)
    => LET bytes == call.count * (IF call.datatype = MPI_INT THEN 4 ELSE 1)
       IN  /\ pc = "returned"
           /\ Len(io) = 1
           /\ io[1].op = "sendto"
           /\ io[1].rank = call.rank
           /\ io[1].len = HeaderSize + bytes
           /\ io[1].hdr.operation = MpiOpSend
           /\ io[1].hdr.result = MPI_SUCCESS
           /\ io[1].hdr.rankId = call.rank
           /\ io[1].hdr.datatype = call.datatype
           /\ io[1].hdr.datacount = call.count
           /\ io[1].payload = [k \in 1..bytes |-> SrcByte(call.seed, k - 1)]
           /\ ret = (IF io[1].ok THEN MPI_SUCCESS ELSE MPI_ERR_IO)

\* signed integers that fill the packet exactly, accepted by the transport
C9_Witness ==
    /\ Returned("send")
    /\ call.datatype = MPI_INT
    /\ call.count > 0
    /\ HeaderSize + call.count * 4 = MpiProxy_MaximumPacketSize
    /\ Len(io) = 1 /\ io[1].ok
    /\ ret = MPI_SUCCESS

\* C10: a failed transport call of terminate is the last one the call makes: terminate
\* has returned MPI_ERR_IO right after it; and terminate returns an error only so, never
\* for the operation or the result of a reply.
C10_TerminateFailFast ==
    call.name = "terminate" =>
        /\ \A k \in 1..Len(io) :
              ~io[k].ok => (k = Len(io) /\ pc = "returned" /\ ret = MPI_ERR_IO)
        /\ (pc = "returned" /\ ret # MPI_SUCCESS) => (Len(io) > 0 /\ ~io[Len(io)].ok)

\* the recvfrom for rank 2 fails after rank 1 reported a failure: the call returns
\* MPI_ERR_IO and rank 3 is never contacted
C10_Witness ==
    /\ Returned("terminate")
    /\ count(m_nodes) = 4
    /\ Len(io) = 4
    /\ io[2].ok /\ io[2].hdr.result = MPI_ERR_IO
    /\ io[4].op = "recvfrom" /\ ~io[4].ok
    /\ ret = MPI_ERR_IO

\* C11: the launch is fail-fast: the Execute packets of initialize go to ranks 1, 2, ... once
\* each, and a failed one is the last transport call: initialize has returned MPI_ERR_IO
\* right after it, with no packet to a higher rank and no second packet to a lower one.
C11_LaunchFailFast ==
    call.name = "initialize" =>
        /\ \A k \in 1..Len(Sends) : Sends[k].rank = k /\ Sends[k].hdr.operation = MpiOpExec
        /\ \A k \in 1..Len(io) :
              (io[k].op = "sendto" /\ ~io[k].ok)
              => (k = Len(io) /\ pc = "failed" /\ ret = MPI_ERR_IO)
        /\ \A k \in 1..Len(Sends) : k < Len(Sends) => Sends[k].ok

\* a registry of four nodes: the packet for rank 1 is sent, the one for rank 2 fails and
\* rank 3 is never contacted
C11_Witness ==
    /\ pc = "failed"
    /\ call.name = "initialize"
    /\ count(m_nodes) = 4
    /\ Len(Sends) = 2
    /\ Sends[1].ok /\ Sends[1].rank = 1
    /\ ~Sends[2].ok /\ Sends[2].rank = 2
    /\ ret = MPI_ERR_IO

\* the hosts file is readable, not empty and all its lines have three fields
ParseSucceeds ==
    /\ hostsFile.ok
    /\ Len(hostsFile.lines) > 0
    /\ \A k \in 1..Len(hostsFile.lines) : hostsFile.lines[k] \in GoodLines

\* C12: initialize makes its steps in the order argument check, hosts file, socket, bind,
\* Execute packets: a datagram is sent only after all four succeeded, it is an Execute
\* packet, and when a step fails initialize has failed with that step's error without
\* having made any later step and without a datagram.
C12_StartupOrdering ==
    (call.name = "initialize" /\ pc # "init") =>
        LET argsOk == Len(call.argv) >= 2
            sockOk == Len(io) >= 1 /\ io[1] = SysCall("socket", TRUE)
            bindOk == Len(io) >= 2 /\ io[2] = SysCall("bind", TRUE)
        IN  /\ \A k \in 1..Len(io) :
                  io[k].op \notin {"socket", "bind"}
                  => /\ io[k].op = "sendto"
                     /\ io[k].hdr.operation = MpiOpExec
                     /\ k > 2
                     /\ argsOk /\ ParseSucceeds /\ sockOk /\ bindOk
            /\ ~argsOk => (pc = "failed" /\ ret = MPI_ERR_ARG /\ io = <<>> /\ m_nodes = <<>>)
            /\ (argsOk /\ ~ParseSucceeds)
               => /\ pc = "failed"
                  /\ ret = (IF hostsFile.ok /\ Len(hostsFile.lines) > 0
                            THEN MPI_ERR_ARG ELSE MPI_ERR_IO)
                  /\ io = <<>>
            /\ (argsOk /\ ParseSucceeds /\ ~sockOk)
               => (pc = "failed" /\ ret = MPI_ERR_IO /\ io = <<SysCall("socket", FALSE)>>)
            /\ (argsOk /\ ParseSucceeds /\ sockOk /\ ~bindOk)
               => /\ pc = "failed"
                  /\ ret = MPI_ERR_IO
                  /\ io = <<SysCall("socket", TRUE), SysCall("bind", FALSE)>>

\* three remote nodes are registered and the socket exists, but the bind fails: initialize
\* has failed with MPI_ERR_IO and no Execute packet was sent
C12_Witness ==
    /\ pc = "failed"
    /\ call.name = "initialize"
    /\ count(m_nodes) = 4
    /\ io = <<SysCall("socket", TRUE), SysCall("bind", FALSE)>>
    /\ ret = MPI_ERR_IO

\* C13: every datagram the host hands to sendto (Execute, Send, Receive request, Terminate)
\* carries result = 0 in its header.
C13_RequestResult ==
    \A k \in 1..Len(io) : io[k].op = "sendto" => io[k].hdr.result = MPI_SUCCESS

\* C14: a step of receive that consumes a datagram whose operation is not Receive leaves
\* the next unfilled position and the caller's buffer as they were, counts nothing, makes no
\* other transport call (the request is not sent again) and stays in the loop.
C14_Discard ==
    [][(/\ pc = "recv"
        /\ Len(io') > Len(io)
        /\ io'[Len(io) + 1].op = "recvfrom"
        /\ io'[Len(io) + 1].ok
        /\ io'[Len(io) + 1].hdr.operation # MpiOpRecv)
       => (/\ i' = i
           /\ buf' = buf
           /\ oob' = oob
           /\ peer' = peer
           /\ io' = Append(io, io'[Len(io) + 1])
           /\ pc' = "recv"
           /\ ret' = ret)]_vars

\* one element of two has arrived, then a Send-op packet carrying an element was consumed:
\* the call still waits with one element stored
C14_Witness ==
    /\ call.name = "receive"
    /\ pc = "recv"
    /\ call.count = 2
    /\ Len(io) = 3
    /\ io[2].op = "recvfrom" /\ io[2].hdr.operation = MpiOpRecv /\ io[2].hdr.datacount = 1
    /\ io[3].op = "recvfrom" /\ io[3].ok
    /\ io[3].hdr.operation = MpiOpSend /\ io[3].hdr.datacount = 1
    /\ i = 1

\* the sum of the datacounts of the Receive-op packets among the first k transport calls
RECURSIVE SumDatacount(_, _)
SumDatacount(log, k) ==
    IF k = 0 THEN 0
    ELSE SumDatacount(log, k - 1)
         + (IF log[k].op = "recvfrom" /\ log[k].ok /\ log[k].hdr.operation = MpiOpRecv
            THEN log[k].hdr.datacount ELSE 0)

\* the cumulative datacount of the Receive-op packets the current call has consumed
Accepted == SumDatacount(io, Len(io))

\* the first transport call is the only sendto: the Receive request for the asked rank,
\* datatype and count
OneRequest ==
    /\ Len(Sends) = 1
    /\ io[1].op = "sendto"
    /\ io[1].rank = call.rank
    /\ io[1].len = HeaderSize
    /\ io[1].hdr.operation = MpiOpRecv
    /\ io[1].hdr.rankId = call.rank
    /\ io[1].hdr.datatype = call.datatype
    /\ io[1].hdr.datacount = call.count

\* a receive from a valid rank with no failed transport call has returned exactly when the
\* cumulative datacount has reached the count, and then with success
ReturnsWhenComplete ==
    NoTransportFailure =>
        /\ pc = "returned" <=> Accepted >= call.count
        /\ pc = "returned" => ret = MPI_SUCCESS
        /\ pc = "recv" => i = Accepted

\* C15 as stated: every receive from a valid rank sends exactly one Receive request and
\* has returned, with success, exactly when the cumulative datacount of the consumed
\* Receive-op packets has reached the requested count.
C15_ReceiveTermination ==
    (call.name = "receive" /\ pc \in {"recv", "returned"} /\ ValidRank(call.rank))
    => (OneRequest /\ ReturnsWhenComplete)

\* C15, amended: the same for a receive of a supported datatype.
C15_ReceiveTerminationSupported ==
    (/\ call.name = "receive"
     /\ pc \in {"recv", "returned"}
     /\ ValidRank(call.rank)
     /\ Supported(call.datatype))
    => (OneRequest /\ ReturnsWhenComplete)

\* two elements are asked for: a Send-op packet carrying one element is consumed first,
\* then a Receive-op packet of two elements, and the call returns success
C15_Witness ==
    /\ Returned("receive")
    /\ Supported(call.datatype)
    /\ call.count = 2
    /\ Len(io) = 3
    /\ io[2].hdr.operation = MpiOpSend /\ io[2].hdr.datacount = 1
    /\ io[3].hdr.operation = MpiOpRecv /\ io[3].hdr.datacount = 2
    /\ NoTransportFailure
    /\ ret = MPI_SUCCESS

\* C16: a send or a receive of a datatype that is neither MPI_INT nor MPI_UNSIGNED_CHAR, to
\* a valid rank and without a failed transport call, has returned
\* MPI_ERR_UNSUPPORTED_DATAREP, whatever the count.
C16_UnsupportedDatatype ==
    (/\ Returned("send") \/ Returned("receive")
     /\ ~Supported(call.datatype)
     /\ ValidRank(call.rank)
     /\ NoTransportFailure)
    => ret = MPI_ERR_UNSUPPORTED_DATAREP

\* C17: what a consumed datagram does depends on its header, never on its sender.  In
\* terminate every consumed reply, from the asked rank or from another one, ends the wait
\* for the asked rank: the transport calls made are one sendto and one recvfrom per rank
\* passed, and the call returns success after the last.  In receive the elements of every
\* consumed Receive-op packet, from the asked rank or from another one, are stored and
\* counted: the next unfilled position is the cumulative datacount of all of them.
C17_AcceptedByOperation ==
    /\ (call.name = "terminate" /\ pc \in {"term", "returned"} /\ NoTransportFailure)
       => /\ Len(io) = 2 * (i - 1)
          /\ \A r \in 1..(i - 1) : io[2 * r - 1].rank = r /\ io[2 * r].op = "recvfrom"
          /\ pc = "returned" => (i = count(m_nodes) /\ ret = MPI_SUCCESS)
    /\ (/\ call.name = "receive"
        /\ pc \in {"recv", "returned"}
        /\ ValidRank(call.rank)
        /\ Supported(call.datatype)
        /\ call.count > 0
        /\ NoTransportFailure)
       => /\ i = Accepted
          /\ pc = "returned" <=> i >= call.count
          /\ pc = "returned" => ret = MPI_SUCCESS

\* (ii) receive of two bytes from one rank: the only packet consumed is a Receive-op packet
\* of two elements that came from another rank, and the call has returned success with that
\* packet's bytes in the caller's buffer
C17_Witness ==
    /\ Returned("receive")
    /\ call.datatype = MPI_UNSIGNED_CHAR
    /\ call.count = 2
    /\ Len(io) = 2
    /\ io[1].op = "sendto" /\ io[1].rank = call.rank
    /\ io[2].op = "recvfrom" /\ io[2].ok
    /\ io[2].hdr.operation = MpiOpRecv
    /\ io[2].rank # call.rank
    /\ buf = <<ForeignByte(0), ForeignByte(1)>>
    /\ ret = MPI_SUCCESS

\* (i) terminate with three remote ranks: the Terminate/success reply consumed while
\* waiting for rank 2 came from rank 3, and the call has passed all ranks and returned
\* success
C17_TerminateWitness ==
    /\ Returned("terminate")
    /\ count(m_nodes) = 4
    /\ Len(io) = 6
    /\ io[3].op = "sendto" /\ io[3].rank = 2
    /\ io[4].op = "recvfrom" /\ io[4].ok
    /\ io[4].hdr.operation = MpiOpTerminate /\ io[4].hdr.result = MPI_SUCCESS
    /\ io[4].rank = 3
    /\ ret = MPI_SUCCESS

\* C18: receive stores elements only at the indexes 0..count-1 of the caller's buffer.
C18_WritesInBounds ==
    call.name = "receive" => oob = {}

\* C19: a send of a supported datatype whose count is negative, or whose header size plus
\* count * element width, as integers, is more than MaximumPacketSize, ends with
\* MPI_ERR_ARG, without a transport call and without a payload copied.
C19_SizeCheckSound ==
    (/\ call.name = "send"
     /\ pc \in {"returned", "crashed"}
     /\ Supported(call.datatype)
     /\ \/ call.count < 0
        \/ HeaderSize + call.count * datasize(call.datatype) > MpiProxy_MaximumPacketSize)
    => (pc = "returned" /\ ret = MPI_ERR_ARG /\ io = <<>>)

Next ==
    \/ Initialize
    \/ StartProcessesStep
    \/ GetCommRank
    \/ GetCommSize
    \/ Send
    \/ ReceiveCall
    \/ ReceiveStep
    \/ TerminateCall
    \/ TerminateStep
    \/ Resume

Spec == Init /\ [][Next]_vars

====
